---- MODULE Spec2Model ----
(***************************************************************************)
(* Model of the todo application of routes/index.tsx: the Item Store       *)
(* (db.todo), the cached List Query (getTodos), the two server actions     *)
(* (createToDo, update), the submission trackers (useSubmissions) and the  *)
(* optimistic view (the actualToDos memo).                                  *)
(***************************************************************************)
EXTENDS Integers, Sequences, FiniteSets, TLC

----------------------------------------------------------------------------
(* Bounds of the model *)

\* ids a caller may name; the store hands out the smallest unused one
MaxId == 3
\* ids of the todos and submissions handed to actualToDos in SpecView
MaxViewId == 2
\* longest snapshot handed to actualToDos in SpecView
MaxLen == 2
\* longest submission list handed to actualToDos in SpecView
MaxPending == 2
\* number of action invocations (UI submissions and direct calls) of a run
MaxCalls == 3

Ids == 1..MaxId
Texts == {"a", "b"}

----------------------------------------------------------------------------
(* Values *)

\* FormData.get("text"): null when the field is missing, a string, or a File
FormNull == [type |-> "null", str |-> ""]
FormFile == [type |-> "file", str |-> ""]
FormString(s) == [type |-> "string", str |-> s]
FormValues == {FormNull, FormFile} \cup {FormString(s) : s \in Texts \cup {""}}

NoError == "none"
MissingText == "Missing Text"
NotFoundError == "NotFoundError"
StoreError == "StoreError"

\* the ids of a list of todos, in order
IdsOf(list) == [k \in DOMAIN list |-> list[k].id]
IdSet(list) == {list[k].id : k \in DOMAIN list}
HasId(list, id) == id \in IdSet(list)
DistinctIds(list) == \A j, k \in DOMAIN list : j # k => list[j].id # list[k].id

----------------------------------------------------------------------------
(* The optimistic view: the actualToDos memo *)

\* a pending that is true while the list has an entry, settled or not
AnyEntry(subs) == Len(subs) > 0

\* updateSubmissions.pending: some submission of the action is in flight
AnyPending(subs) == \E i \in DOMAIN subs : subs[i].pending

\* updateSubmissions.find((e) => e.pending && e.input[1] === todo.id):
\* the index of the first such entry, 0 for undefined.
\* input is <<chcked, id>>, so the source's input[0], input[1] are input[1], input[2]
existsIgnoringId(subs, todo) ==
  LET m == {i \in DOMAIN subs : subs[i].pending}
  IN IF m = {} THEN 0 ELSE CHOOSE i \in m : \A j \in m : i <= j

existsLast(subs, todo) ==
  LET m == {i \in DOMAIN subs : subs[i].pending /\ subs[i].input[2] = todo.id}
  IN IF m = {} THEN 0 ELSE CHOOSE i \in m : \A j \in m : i >= j

existsHead(subs, todo) ==
  LET m == {i \in DOMAIN subs : subs[i].pending}
      h == CHOOSE i \in m : \A j \in m : i <= j
  IN IF m = {} THEN 0 ELSE IF subs[h].input[2] = todo.id THEN h ELSE 0

existsSettled(subs, todo) ==
  LET m == {i \in DOMAIN subs : subs[i].input[2] = todo.id}
  IN IF m = {} THEN 0 ELSE CHOOSE i \in m : \A j \in m : i <= j

exists(subs, todo) ==
  LET m == {i \in DOMAIN subs : subs[i].pending /\ subs[i].input[2] = todo.id}
  IN IF m = {} THEN 0 ELSE CHOOSE i \in m : \A j \in m : i <= j

\* { ...todo, completed: exists.input[0] }: the fields of a new object
SpreadKeepCompleted(todo, e) == todo

Spread(todo, e) == [todo EXCEPT !.completed = e.input[1]]

\* The memo on a heap of Todo objects: h is the heap (a reference is an index
\* of h), t the snapshot (ready: todos() is not undefined; list: the array of
\* references), subs the submissions. Returns the heap after the call and the
\* array returned. map builds a new array; the spread allocates a new object
\* for an overlaid todo; `return todo` returns the snapshot's reference.
ActualToDosInPlace(h, t, subs) ==
  IF ~AnyPending(subs) THEN [heap |-> h, ready |-> t.ready, list |-> t.list]
  ELSE IF ~t.ready THEN [heap |-> h, ready |-> FALSE, list |-> <<>>]
  ELSE LET hit(r) == exists(subs, h[r])
       IN [heap |-> [r \in DOMAIN h |->
                       IF (\E k \in DOMAIN t.list : t.list[k] = r) /\ hit(r) # 0
                       THEN Spread(h[r], subs[hit(r)]) ELSE h[r]],
           ready |-> TRUE,
           list |-> t.list]

ActualToDosAnyEntry(h, t, subs) ==
  IF Len(subs) = 0 THEN [heap |-> h, ready |-> t.ready, list |-> t.list]
  ELSE IF ~t.ready THEN [heap |-> h, ready |-> FALSE, list |-> <<>>]
  ELSE LET find(todo) ==
             LET m == {i \in DOMAIN subs : subs[i].input[2] = todo.id}
             IN IF m = {} THEN 0 ELSE CHOOSE i \in m : \A j \in m : i <= j
           hits == {k \in DOMAIN t.list : find(h[t.list[k]]) # 0}
           rank(k) == Cardinality({j \in hits : j <= k})
           kth(n) == CHOOSE k \in hits : rank(k) = n
       IN [heap |-> h \o [n \in 1..Cardinality(hits) |->
                            Spread(h[t.list[kth(n)]], subs[find(h[t.list[kth(n)]])])],
           ready |-> TRUE,
           list |-> [k \in DOMAIN t.list |->
                       IF k \in hits THEN Len(h) + rank(k) ELSE t.list[k]]]

ActualToDosFilter(h, t, subs) ==
  IF ~AnyPending(subs) THEN [heap |-> h, ready |-> t.ready, list |-> t.list]
  ELSE IF ~t.ready THEN [heap |-> h, ready |-> FALSE, list |-> <<>>]
  ELSE LET hits == {k \in DOMAIN t.list : exists(subs, h[t.list[k]]) # 0}
           rank(k) == Cardinality({j \in hits : j <= k})
           kth(n) == CHOOSE k \in hits : rank(k) = n
       IN [heap |-> h \o [n \in 1..Cardinality(hits) |->
                            Spread(h[t.list[kth(n)]],
                                   subs[exists(subs, h[t.list[kth(n)]])])],
           ready |-> TRUE,
           list |-> [n \in 1..Cardinality(hits) |-> Len(h) + n]]

\* (t ?? []).map(...): an empty list while todos() is undefined
ActualToDosEmptyWhenLoading(h, t, subs) ==
  IF ~AnyPending(subs) THEN [heap |-> h, ready |-> t.ready, list |-> t.list]
  ELSE IF ~t.ready THEN [heap |-> h, ready |-> TRUE, list |-> <<>>]
  ELSE LET hits == {k \in DOMAIN t.list : exists(subs, h[t.list[k]]) # 0}
           rank(k) == Cardinality({j \in hits : j <= k})
           kth(n) == CHOOSE k \in hits : rank(k) = n
       IN [heap |-> h \o [n \in 1..Cardinality(hits) |->
                            Spread(h[t.list[kth(n)]],
                                   subs[exists(subs, h[t.list[kth(n)]])])],
           ready |-> TRUE,
           list |-> [k \in DOMAIN t.list |->
                       IF k \in hits THEN Len(h) + rank(k) ELSE t.list[k]]]

ActualToDos(h, t, subs) ==
  IF ~AnyPending(subs) THEN [heap |-> h, ready |-> t.ready, list |-> t.list]
  ELSE IF ~t.ready THEN [heap |-> h, ready |-> FALSE, list |-> <<>>]
  ELSE LET hits == {k \in DOMAIN t.list : exists(subs, h[t.list[k]]) # 0}
           rank(k) == Cardinality({j \in hits : j <= k})
           kth(n) == CHOOSE k \in hits : rank(k) = n
       IN [heap |-> h \o [n \in 1..Cardinality(hits) |->
                            Spread(h[t.list[kth(n)]],
                                   subs[exists(subs, h[t.list[kth(n)]])])],
           ready |-> TRUE,
           list |-> [k \in DOMAIN t.list |->
                       IF k \in hits THEN Len(h) + rank(k) ELSE t.list[k]]]

\* the Todo objects an array of references denotes
Deref(h, list) == [k \in DOMAIN list |-> h[list[k]]]

\* actualToDos() on a snapshot given by value: the list rendered by <For>
actualToDos(t, subs) ==
  LET r == ActualToDos(t.list, [ready |-> t.ready, list |-> [k \in DOMAIN t.list |-> k]], subs)
  IN [ready |-> r.ready, list |-> Deref(r.heap, r.list)]

----------------------------------------------------------------------------
(* The Item Store: db.todo *)

\* the id the store generates for a new row: one no row has
FreshId(db) == CHOOSE n \in 1..(Len(db) + 1) : ~HasId(db, n)

\* db.todo.create({ data: { text } })
DbCreate(db, text) ==
  Append(db, [id |-> FreshId(db), text |-> text, completed |-> FALSE])

\* db.todo.update({ where: { id }, data: { completed } }) on an existing id
DbUpdate(db, id, completed) ==
  [k \in DOMAIN db |->
     IF db[k].id = id THEN [db[k] EXCEPT !.completed = completed] ELSE db[k]]

\* db.todo.findMany()
DbFindMany(db) == db

----------------------------------------------------------------------------
(* The server functions, up to their first await *)

\* !text || typeof text !== "string" is false
Falsy(v) == v.type = "null" \/ (v.type = "string" /\ v.str = "")
ValidText(v) == ~(Falsy(v) \/ v.type # "string")

\* createToDo, lines 23-27: validation, then the store write.
\* ok: the store carries the write out (no StoreError)
createToDoWriteFirst(db, text, ok) ==
  IF ~ok THEN [db |-> db, error |-> StoreError]
  ELSE IF ~ValidText(text) THEN [db |-> DbCreate(db, text.str), error |-> MissingText]
  ELSE [db |-> DbCreate(db, text.str), error |-> NoError]

createToDoTwice(db, text, ok) ==
  IF ~ValidText(text) THEN [db |-> db, error |-> MissingText]
  ELSE IF ~ok THEN [db |-> db, error |-> StoreError]
  ELSE [db |-> DbCreate(DbCreate(db, text.str), text.str), error |-> NoError]

createToDo(db, text, ok) ==
  IF ~ValidText(text) THEN [db |-> db, error |-> MissingText]
  ELSE IF ~ok THEN [db |-> db, error |-> StoreError]
  ELSE [db |-> DbCreate(db, text.str), error |-> NoError]

\* update, lines 39-44: the store write
updateAll(db, chcked, id, ok) ==
  IF ~ok THEN [db |-> db, error |-> StoreError]
  ELSE IF ~HasId(db, id) THEN [db |-> db, error |-> NotFoundError]
  ELSE [db |-> [k \in DOMAIN db |-> [db[k] EXCEPT !.completed = chcked]],
        error |-> NoError]

updateUpsert(db, chcked, id, ok) ==
  IF ~ok THEN [db |-> db, error |-> StoreError]
  ELSE IF ~HasId(db, id)
       THEN [db |-> Append(db, [id |-> id, text |-> "a", completed |-> chcked]),
             error |-> NoError]
  ELSE [db |-> DbUpdate(db, id, chcked), error |-> NoError]

updateOverwrite(db, chcked, id, ok) ==
  IF ~ok THEN [db |-> db, error |-> StoreError]
  ELSE IF ~HasId(db, id) THEN [db |-> db, error |-> NotFoundError]
  ELSE [db |-> [k \in DOMAIN db |->
                  IF db[k].id = id
                  THEN [id |-> id, text |-> "", completed |-> chcked] ELSE db[k]],
        error |-> NoError]

updateToggle(db, chcked, id, ok) ==
  IF ~ok THEN [db |-> db, error |-> StoreError]
  ELSE IF ~HasId(db, id) THEN [db |-> db, error |-> NotFoundError]
  ELSE [db |-> [k \in DOMAIN db |->
                  IF db[k].id = id THEN [db[k] EXCEPT !.completed = ~@] ELSE db[k]],
        error |-> NoError]

updateSticky(db, chcked, id, ok) ==
  IF ~ok THEN [db |-> db, error |-> StoreError]
  ELSE IF ~HasId(db, id) THEN [db |-> db, error |-> NotFoundError]
  ELSE [db |-> [k \in DOMAIN db |->
                  IF db[k].id = id THEN [db[k] EXCEPT !.completed = @ \/ chcked]
                  ELSE db[k]],
        error |-> NoError]

update(db, chcked, id, ok) ==
  IF ~ok THEN [db |-> db, error |-> StoreError]
  ELSE IF ~HasId(db, id) THEN [db |-> db, error |-> NotFoundError]
  ELSE [db |-> DbUpdate(db, id, chcked), error |-> NoError]

\* getTodos = cache(() => db.todo.findMany(), "todos")
getTodosNoCache(c, db) ==
  [cache |-> [valid |-> TRUE, value |-> DbFindMany(db)],
   result |-> DbFindMany(db)]

getTodos(c, db) ==
  IF c.valid THEN [cache |-> c, result |-> c.value]
  ELSE [cache |-> [valid |-> TRUE, value |-> DbFindMany(db)],
        result |-> DbFindMany(db)]

----------------------------------------------------------------------------
(* State *)

VARIABLES
  store,              \* db.todo: the rows of the Item Store, in creation order
  cache,              \* the router's cache entry of key "todos"
  todos,              \* the createAsync signal of Home: undefined or a list
  createSubmissions,  \* useSubmissions(createToDo)
  updateSubmissions,  \* useSubmissions(update)
  calls,              \* the invocations made so far
  last,               \* the latest run of a server function up to its write:
                      \* its number, arguments, whether the store worked, result
  writes,             \* for each row of the store, the latest update of it
                      \* that committed: who made it, and its argument
  heap,               \* SpecView: the Todo objects that exist
  heap0,              \* SpecView: the Todo objects before the memo ran
  snap,               \* SpecView: the array todos() returns, as references
  memo                \* SpecView: the array the memo returned

vars == <<store, cache, todos, createSubmissions, updateSubmissions, calls,
          last, writes, heap, heap0, snap, memo>>
sysVars == <<store, cache, todos, createSubmissions, calls, last, writes>>
viewVars == <<heap, heap0, snap, memo>>

\* a submission: the arguments of the invocation, its pending flag, the error
\* it settled with, where the server function stands, the steps of the server
\* function that have completed, and whether its store write is the latest
\* one committed to its row
Submission(input) ==
  [input |-> input, pending |-> TRUE, error |-> NoError, pc |-> "write",
   done |-> <<>>, latest |-> FALSE]

\* a row no update has been committed to
NoWrite(made) == [made |-> made, by |-> "none", chcked |-> FALSE]

\* the log of committed updates after createToDo turned store db into r.db
WritesAfterCreate(w, db, r, made) ==
  w \o [k \in 1..(Len(r.db) - Len(db)) |-> NoWrite(made)]

\* the log of committed updates after update(chcked, id), called by `by`, ran
\* on store db with result r
WritesAfterUpdate(w, db, r, chcked, id, by) ==
  IF r.error # NoError THEN w
  ELSE [k \in DOMAIN w |->
          IF k \in DOMAIN db /\ db[k].id = id
          THEN [w[k] EXCEPT !.by = by, !.chcked = chcked] ELSE w[k]]

\* the submissions after update(chcked, id) ran with result r: a write that
\* committed to the row of id is now the latest one to it
Superseded(subs, r, id) ==
  [j \in DOMAIN subs |->
     IF r.error = NoError /\ subs[j].input[2] = id
     THEN [subs[j] EXCEPT !.latest = FALSE] ELSE subs[j]]

NoCall ==
  [n |-> 0, fn |-> "none", text |-> FormNull, chcked |-> FALSE, id |-> 0,
   ok |-> TRUE, error |-> NoError]

\* the rows a database file holds when the application starts
SeedStores ==
  {<<>>,
   <<[id |-> 1, text |-> "a", completed |-> FALSE],
     [id |-> 2, text |-> "b", completed |-> FALSE]>>}

InitSys ==
  /\ store \in SeedStores
  /\ cache = [valid |-> FALSE, value |-> <<>>]
  /\ todos = [ready |-> FALSE, list |-> <<>>]
  /\ createSubmissions = <<>>
  /\ calls = 0
  /\ last = NoCall
  /\ writes = [k \in DOMAIN store |-> NoWrite("seed")]

Init ==
  /\ InitSys
  /\ updateSubmissions = <<>>
  /\ heap = <<>>
  /\ heap0 = <<>>
  /\ snap = [ready |-> FALSE, list |-> <<>>]
  /\ memo = [calls |-> 0, ready |-> FALSE, list |-> <<>>, first |-> <<>>]

\* a list that also predicts the todo of a pending createToDo
ViewOptimisticCreate ==
  LET v == actualToDos(todos, updateSubmissions)
      n == Len(createSubmissions)
  IN IF v.ready /\ AnyPending(createSubmissions)
     THEN [ready |-> TRUE,
           list |-> Append(v.list, [id |-> 0, text |-> createSubmissions[n].input.str,
                                    completed |-> FALSE])]
     ELSE v

\* the list <For each={actualToDos()}> renders
View == actualToDos(todos, updateSubmissions)

----------------------------------------------------------------------------
(* The List Query *)

\* route.preload: await getTodos()
Preload ==
  /\ ~todos.ready
  /\ ~cache.valid
  /\ cache' = getTodos(cache, store).cache
  /\ UNCHANGED <<store, todos, createSubmissions, updateSubmissions, calls, last>>
  /\ UNCHANGED <<writes, viewVars>>

\* createAsync(() => getTodos()): the first read of Home, and the read that
\* follows an invalidation of the key
CreateAsync ==
  /\ ~todos.ready \/ ~cache.valid
  /\ cache' = getTodos(cache, store).cache
  /\ todos' = [ready |-> TRUE, list |-> getTodos(cache, store).result]
  /\ UNCHANGED <<store, createSubmissions, updateSubmissions, calls, last>>
  /\ UNCHANGED <<writes, viewVars>>

----------------------------------------------------------------------------
(* Submissions *)

\* a tracker keyed by the input: settling drops every entry with this input
RemoveSameInput(seq, i) ==
  LET other(e) == e.input # seq[i].input IN SelectSeq(seq, other)

Remove(seq, i) == SubSeq(seq, 1, i - 1) \o SubSeq(seq, i + 1, Len(seq))

\* a server function that revalidates in a finally block
AfterWriteFinally(e, r) ==
  IF r.error = NoError
  THEN [e EXCEPT !.pc = "delay", !.done = Append(@, "write"), !.latest = TRUE]
  ELSE [e EXCEPT !.pending = FALSE, !.error = r.error, !.pc = "revalidate"]

\* an entry that stays pending after its invocation failed
AfterWriteKeepPending(e, r) ==
  IF r.error = NoError
  THEN [e EXCEPT !.pc = "delay", !.done = Append(@, "write"), !.latest = TRUE]
  ELSE [e EXCEPT !.error = r.error, !.pc = "done"]

\* the entry after the server function ran up to its write with result r
AfterWrite(e, r) ==
  IF r.error = NoError
  THEN [e EXCEPT !.pc = "delay", !.done = Append(@, "write"), !.latest = TRUE]
  ELSE [e EXCEPT !.pending = FALSE, !.error = r.error, !.pc = "done"]

\* the form's text input holds a string, possibly empty
FormTexts == {FormString(s) : s \in Texts \cup {""}}

----------------------------------------------------------------------------
(* Create *)

\* <form action={createToDo}>: submit, with the button enabled
SubmitCreate(text) ==
  /\ todos.ready
  /\ ~AnyPending(createSubmissions)
  /\ calls < MaxCalls
  /\ calls' = calls + 1
  /\ createSubmissions' = Append(createSubmissions, Submission(text))
  /\ UNCHANGED <<store, cache, todos, updateSubmissions, last>>
  /\ UNCHANGED <<writes, viewVars>>

\* createToDo, lines 23-27
CreateWrite(i, ok) ==
  /\ createSubmissions[i].pc = "write"
  /\ LET e == createSubmissions[i]
         r == createToDo(store, e.input, ok)
     IN /\ store' = r.db
        /\ createSubmissions' = [createSubmissions EXCEPT ![i] = AfterWrite(e, r)]
        /\ last' = [n |-> last.n + 1, fn |-> "createToDo", text |-> e.input,
                    chcked |-> FALSE, id |-> 0, ok |-> ok, error |-> r.error]
        /\ writes' = WritesAfterCreate(writes, store, r, "ui")
  /\ UNCHANGED <<cache, todos, updateSubmissions, calls>>
  /\ UNCHANGED viewVars

\* createToDo, lines 28-32: the timer fires
CreateDelay(i) ==
  /\ createSubmissions[i].pc = "delay"
  /\ createSubmissions' =
       [createSubmissions EXCEPT ![i].pc = "revalidate",
                                 ![i].done = Append(@, "delay")]
  /\ UNCHANGED <<store, cache, todos, updateSubmissions, calls, last>>
  /\ UNCHANGED <<writes, viewVars>>

\* createToDo without its line 33
CreateNoRevalidate(i) ==
  /\ createSubmissions[i].pc = "revalidate"
  /\ cache' = cache
  /\ createSubmissions' =
       [createSubmissions EXCEPT ![i].pc = "refetch",
                                 ![i].done = Append(@, "revalidate")]
  /\ UNCHANGED <<store, todos, updateSubmissions, calls, last>>
  /\ UNCHANGED <<writes, viewVars>>

\* createToDo, line 33: revalidate(getTodos.key)
CreateRevalidate(i) ==
  /\ createSubmissions[i].pc = "revalidate"
  /\ cache' = [cache EXCEPT !.valid = FALSE]
  /\ createSubmissions' =
       [createSubmissions EXCEPT ![i].pc = "refetch",
                                 ![i].done = Append(@, "revalidate")]
  /\ UNCHANGED <<store, todos, updateSubmissions, calls, last>>
  /\ UNCHANGED <<writes, viewVars>>

\* the action settles once the list has been read again
CreateSettle(i) ==
  /\ createSubmissions[i].pc = "refetch"
  /\ cache.valid
  /\ createSubmissions' = Remove(createSubmissions, i)
  /\ UNCHANGED <<store, cache, todos, updateSubmissions, calls, last>>
  /\ UNCHANGED <<writes, viewVars>>

----------------------------------------------------------------------------
(* SetCompleted *)

\* a click that sends the value shown, not the value clicked
SubmitUpdateSameValue(k) ==
  /\ todos.ready
  /\ k \in DOMAIN View.list
  /\ exists(updateSubmissions, View.list[k]) = 0
  /\ calls < MaxCalls
  /\ calls' = calls + 1
  /\ updateSubmissions' =
       Append(updateSubmissions,
              Submission(<<View.list[k].completed, View.list[k].id>>))
  /\ UNCHANGED <<store, cache, todos, createSubmissions, last>>
  /\ UNCHANGED <<writes, viewVars>>

\* a checkbox that is never disabled
SubmitUpdateAlways(k) ==
  /\ todos.ready
  /\ k \in DOMAIN View.list
  /\ calls < MaxCalls
  /\ calls' = calls + 1
  /\ updateSubmissions' =
       Append(updateSubmissions,
              Submission(<<~View.list[k].completed, View.list[k].id>>))
  /\ UNCHANGED <<store, cache, todos, createSubmissions, last>>
  /\ UNCHANGED <<writes, viewVars>>

\* the checkbox of the k-th todo rendered: onClick, unless disabled
SubmitUpdate(k) ==
  /\ todos.ready
  /\ k \in DOMAIN View.list
  /\ exists(updateSubmissions, View.list[k]) = 0
  /\ calls < MaxCalls
  /\ calls' = calls + 1
  /\ updateSubmissions' =
       Append(updateSubmissions,
              Submission(<<~View.list[k].completed, View.list[k].id>>))
  /\ UNCHANGED <<store, cache, todos, createSubmissions, last>>
  /\ UNCHANGED <<writes, viewVars>>

\* updateToDo = useAction(update), called for the k-th todo rendered (its id
\* is the id of the k-th todo of the snapshot) whatever is pending: the
\* function itself has no guard, the checkbox's disabled attribute is the
\* only one
UpdateToDo(chcked, k) ==
  /\ todos.ready
  /\ k \in DOMAIN todos.list
  /\ calls < MaxCalls
  /\ calls' = calls + 1
  /\ updateSubmissions' =
       Append(updateSubmissions, Submission(<<chcked, todos.list[k].id>>))
  /\ UNCHANGED <<store, cache, todos, createSubmissions, last>>
  /\ UNCHANGED <<writes, viewVars>>

\* update, lines 39-44
UpdateWrite(i, ok) ==
  /\ updateSubmissions[i].pc = "write"
  /\ LET e == updateSubmissions[i]
         r == update(store, e.input[1], e.input[2], ok)
     IN /\ store' = r.db
        /\ updateSubmissions' =
             [Superseded(updateSubmissions, r, e.input[2]) EXCEPT
                ![i] = AfterWrite(e, r)]
        /\ last' = [n |-> last.n + 1, fn |-> "update", text |-> FormNull,
                    chcked |-> e.input[1], id |-> e.input[2], ok |-> ok,
                    error |-> r.error]
        /\ writes' = WritesAfterUpdate(writes, store, r, e.input[1], e.input[2],
                                       "ui")
  /\ UNCHANGED <<cache, todos, createSubmissions, calls>>
  /\ UNCHANGED viewVars

\* a timer that never fires
UpdateDelayHang(i) ==
  /\ updateSubmissions[i].pc = "delay"
  /\ UNCHANGED vars

\* update, lines 45-49: the timer fires
UpdateDelay(i) ==
  /\ updateSubmissions[i].pc = "delay"
  /\ updateSubmissions' =
       [updateSubmissions EXCEPT ![i].pc = "revalidate",
                                 ![i].done = Append(@, "delay")]
  /\ UNCHANGED <<store, cache, todos, createSubmissions, calls, last>>
  /\ UNCHANGED <<writes, viewVars>>

\* update without its line 50
UpdateNoRevalidate(i) ==
  /\ updateSubmissions[i].pc = "revalidate"
  /\ cache' = cache
  /\ updateSubmissions' =
       [updateSubmissions EXCEPT ![i].pc = "refetch",
                                 ![i].done = Append(@, "revalidate")]
  /\ UNCHANGED <<store, todos, createSubmissions, calls, last>>
  /\ UNCHANGED <<writes, viewVars>>

\* revalidate placed before the write
UpdateRevalidateFirst(i) ==
  /\ updateSubmissions[i].pc \in {"write", "revalidate"}
  /\ cache' = [cache EXCEPT !.valid = FALSE]
  /\ updateSubmissions' =
       [updateSubmissions EXCEPT ![i].pc = "refetch",
                                 ![i].done = Append(@, "revalidate")]
  /\ UNCHANGED <<store, todos, createSubmissions, calls, last>>
  /\ UNCHANGED <<writes, viewVars>>

\* update, line 50: revalidate(getTodos.key)
UpdateRevalidate(i) ==
  /\ updateSubmissions[i].pc = "revalidate"
  /\ cache' = [cache EXCEPT !.valid = FALSE]
  /\ updateSubmissions' =
       [updateSubmissions EXCEPT ![i].pc = "refetch",
                                 ![i].done = Append(@, "revalidate")]
  /\ UNCHANGED <<store, todos, createSubmissions, calls, last>>
  /\ UNCHANGED <<writes, viewVars>>

\* an action that settles when its server function returns, the list not
\* read again yet
UpdateSettleEarly(i) ==
  /\ updateSubmissions[i].pc = "refetch"
  /\ updateSubmissions' = Remove(updateSubmissions, i)
  /\ UNCHANGED <<store, cache, todos, createSubmissions, calls, last>>
  /\ UNCHANGED <<writes, viewVars>>

\* the action settles once the list has been read again
UpdateSettle(i) ==
  /\ updateSubmissions[i].pc = "refetch"
  /\ cache.valid
  /\ updateSubmissions' = Remove(updateSubmissions, i)
  /\ UNCHANGED <<store, cache, todos, createSubmissions, calls, last>>
  /\ UNCHANGED <<writes, viewVars>>

----------------------------------------------------------------------------
(* Calls of the server functions by another client: only their store write
   is seen here, their submissions and cache are the other client's *)

OtherCreate(text, ok) ==
  /\ calls < MaxCalls
  /\ calls' = calls + 1
  /\ store' = createToDo(store, text, ok).db
  /\ last' = [n |-> last.n + 1, fn |-> "createToDo", text |-> text,
              chcked |-> FALSE, id |-> 0, ok |-> ok,
              error |-> createToDo(store, text, ok).error]
  /\ writes' = WritesAfterCreate(writes, store, createToDo(store, text, ok),
                                 "other")
  /\ UNCHANGED <<cache, todos, createSubmissions, updateSubmissions>>
  /\ UNCHANGED viewVars

OtherUpdate(chcked, id, ok) ==
  /\ calls < MaxCalls
  /\ calls' = calls + 1
  /\ store' = update(store, chcked, id, ok).db
  /\ last' = [n |-> last.n + 1, fn |-> "update", text |-> FormNull,
              chcked |-> chcked, id |-> id, ok |-> ok,
              error |-> update(store, chcked, id, ok).error]
  /\ writes' = WritesAfterUpdate(writes, store, update(store, chcked, id, ok),
                                 chcked, id, "other")
  /\ updateSubmissions' =
       Superseded(updateSubmissions, update(store, chcked, id, ok), id)
  /\ UNCHANGED <<cache, todos, createSubmissions>>
  /\ UNCHANGED viewVars

----------------------------------------------------------------------------

Next ==
  \/ Preload
  \/ CreateAsync
  \/ \E text \in FormTexts : SubmitCreate(text)
  \/ \E i \in DOMAIN createSubmissions, ok \in BOOLEAN : CreateWrite(i, ok)
  \/ \E i \in DOMAIN createSubmissions : CreateDelay(i)
  \/ \E i \in DOMAIN createSubmissions : CreateRevalidate(i)
  \/ \E i \in DOMAIN createSubmissions : CreateSettle(i)
  \/ \E k \in 1..Len(todos.list) : SubmitUpdate(k)
  \/ \E i \in DOMAIN updateSubmissions, ok \in BOOLEAN : UpdateWrite(i, ok)
  \/ \E i \in DOMAIN updateSubmissions : UpdateDelay(i)
  \/ \E i \in DOMAIN updateSubmissions : UpdateRevalidate(i)
  \/ \E i \in DOMAIN updateSubmissions : UpdateSettle(i)
  \/ \E text \in FormValues, ok \in BOOLEAN : OtherCreate(text, ok)
  \/ \E chcked \in BOOLEAN, id \in Ids, ok \in BOOLEAN : OtherUpdate(chcked, id, ok)

Spec == Init /\ [][Next]_vars

\* every awaited step of a server function completes: the store answers, the
\* timer fires, revalidate returns, and the list is read again after an
\* invalidation
Fairness ==
  /\ WF_vars(CreateAsync)
  /\ WF_vars(\E i \in DOMAIN createSubmissions, ok \in BOOLEAN : CreateWrite(i, ok))
  /\ WF_vars(\E i \in DOMAIN createSubmissions : CreateDelay(i))
  /\ WF_vars(\E i \in DOMAIN createSubmissions : CreateRevalidate(i))
  /\ WF_vars(\E i \in DOMAIN createSubmissions : CreateSettle(i))
  /\ WF_vars(\E i \in DOMAIN updateSubmissions, ok \in BOOLEAN : UpdateWrite(i, ok))
  /\ WF_vars(\E i \in DOMAIN updateSubmissions : UpdateDelay(i))
  /\ WF_vars(\E i \in DOMAIN updateSubmissions : UpdateRevalidate(i))
  /\ WF_vars(\E i \in DOMAIN updateSubmissions : UpdateSettle(i))

\* one session and no other writer: the page's own steps
NextSession ==
  \/ Preload
  \/ CreateAsync
  \/ \E text \in FormTexts : SubmitCreate(text)
  \/ \E i \in DOMAIN createSubmissions, ok \in BOOLEAN : CreateWrite(i, ok)
  \/ \E i \in DOMAIN createSubmissions : CreateDelay(i)
  \/ \E i \in DOMAIN createSubmissions : CreateRevalidate(i)
  \/ \E i \in DOMAIN createSubmissions : CreateSettle(i)
  \/ \E k \in 1..Len(todos.list) : SubmitUpdate(k)
  \/ \E i \in DOMAIN updateSubmissions, ok \in BOOLEAN : UpdateWrite(i, ok)
  \/ \E i \in DOMAIN updateSubmissions : UpdateDelay(i)
  \/ \E i \in DOMAIN updateSubmissions : UpdateRevalidate(i)
  \/ \E i \in DOMAIN updateSubmissions : UpdateSettle(i)

SpecSession == Init /\ [][NextSession]_vars

\* the session with updateToDo called directly: the invocations of update
\* and the reads of the list
NextTracker ==
  \/ Preload
  \/ CreateAsync
  \/ \E chcked \in BOOLEAN, k \in 1..Len(todos.list) : UpdateToDo(chcked, k)
  \/ \E i \in DOMAIN updateSubmissions, ok \in BOOLEAN : UpdateWrite(i, ok)
  \/ \E i \in DOMAIN updateSubmissions : UpdateDelay(i)
  \/ \E i \in DOMAIN updateSubmissions : UpdateRevalidate(i)
  \/ \E i \in DOMAIN updateSubmissions : UpdateSettle(i)

SpecTracker == Init /\ [][NextTracker]_vars

SpecLive == Init /\ [][Next]_vars /\ Fairness

----------------------------------------------------------------------------
(* SpecView: the memo alone, on every snapshot and every submission list
   within the bounds *)

\* the todos of a snapshot: the text of a todo goes with its id
TextOf(id) == IF id = 1 THEN "a" ELSE "b"
ViewTodo ==
  {[id |-> id, text |-> TextOf(id), completed |-> c] :
     id \in 1..MaxViewId, c \in BOOLEAN}

SeqsUpTo(S, n) == UNION {[1..m -> S] : m \in 0..n}

\* the lists getTodos can return: rows of a table whose key is id
Snapshots == {l \in SeqsUpTo(ViewTodo, MaxLen) : DistinctIds(l)}

\* entries of useSubmissions(update): in flight, or settled with an error
ViewEntry ==
  {Submission(<<c, id>>) : c \in BOOLEAN, id \in 1..MaxViewId}
  \cup {[Submission(<<c, id>>) EXCEPT
           !.pending = FALSE, !.error = StoreError, !.pc = "done"] :
          c \in BOOLEAN, id \in 1..MaxViewId}

InitView ==
  /\ store = <<>>
  /\ cache = [valid |-> FALSE, value |-> <<>>]
  /\ todos = [ready |-> FALSE, list |-> <<>>]
  /\ calls = 0
  /\ last = NoCall
  /\ writes = <<>>
  /\ createSubmissions = <<Submission(FormString("a"))>>
  /\ updateSubmissions \in SeqsUpTo(ViewEntry, MaxPending)
  /\ heap \in Snapshots
  /\ heap0 = heap
  /\ \/ snap = [ready |-> TRUE, list |-> [k \in DOMAIN heap |-> k]]
     \/ heap = <<>> /\ snap = [ready |-> FALSE, list |-> <<>>]
  /\ memo = [calls |-> 0, ready |-> FALSE, list |-> <<>>, first |-> <<>>]

\* actualToDos(): the memo runs on the objects that exist now
Compute ==
  /\ memo.calls < 2
  /\ LET r == ActualToDos(heap, snap, updateSubmissions)
     IN /\ heap' = r.heap
        /\ memo' = [calls |-> memo.calls + 1, ready |-> r.ready, list |-> r.list,
                    first |-> IF memo.calls = 0 THEN Deref(r.heap, r.list)
                              ELSE memo.first]
  /\ UNCHANGED <<store, cache, todos, createSubmissions, updateSubmissions,
                 calls, last, writes, heap0, snap>>

NextView == Compute

SpecView == InitView /\ [][NextView]_vars

\* the snapshot handed to the memo, the submissions, and the list it returned
S == Deref(heap0, snap.list)
P == updateSubmissions
V == Deref(heap, memo.list)
Computed == memo.calls > 0 /\ snap.ready
PendingFor(id) == {i \in DOMAIN P : P[i].pending /\ P[i].input[2] = id}

----------------------------------------------------------------------------
(* Claims on the memo, under SpecView *)

\* the first pending entry for an id
FirstPendingFor(id) == CHOOSE i \in PendingFor(id) : \A j \in PendingFor(id) : i <= j

\* C1: every todo of the snapshot that has a pending entry for its id is shown
\* at its place with the completed argument of that entry (of the first such
\* entry, the one find returns, when there are several) and with its id and
\* text
C1_Overlay ==
  Computed =>
    /\ Len(V) = Len(S)
    /\ \A k \in DOMAIN S :
         PendingFor(S[k].id) # {} =>
           V[k] = [id |-> S[k].id, text |-> S[k].text,
                   completed |-> P[FirstPendingFor(S[k].id)].input[1]]

C1_Witness ==
  /\ Computed
  /\ \E k \in DOMAIN S :
       /\ PendingFor(S[k].id) # {}
       /\ P[FirstPendingFor(S[k].id)].input[1] # S[k].completed
       /\ V[k].completed # S[k].completed

\* C2: with no entry pending (none at all, or all settled) the memo returns
\* the snapshot
C2_PassThrough ==
  (memo.calls > 0 /\ ~AnyPending(P)) =>
    /\ memo.ready = snap.ready
    /\ V = S

C2_Witness ==
  /\ Computed
  /\ ~AnyPending(P)
  /\ \E k \in DOMAIN S, i \in DOMAIN P :
       P[i].input[2] = S[k].id /\ P[i].input[1] # S[k].completed
  /\ V = S

\* C3: a todo without a pending entry for its own id is shown as in the
\* snapshot, whatever else is pending; the id and text of a todo are never
\* changed, and its completed value only to the argument of an entry pending
\* for its own id
C3_NoCrossContamination ==
  Computed =>
    /\ Len(V) = Len(S)
    /\ \A k \in DOMAIN S : PendingFor(S[k].id) = {} => V[k] = S[k]
    /\ \A k \in DOMAIN S :
         /\ V[k].id = S[k].id
         /\ V[k].text = S[k].text
         /\ V[k].completed \in
              {S[k].completed} \cup {P[i].input[1] : i \in PendingFor(S[k].id)}

C3_Witness ==
  /\ Computed
  /\ \E k \in DOMAIN S, i \in DOMAIN P :
       /\ PendingFor(S[k].id) = {}
       /\ P[i].pending
       /\ P[i].input[2] # S[k].id
       /\ P[i].input[1] # S[k].completed
       /\ V[k] = S[k]

\* C4: the memo returns as many todos as the snapshot has, with the same ids
\* in the same order, whatever is pending
C4_SameIds ==
  Computed =>
    /\ memo.ready
    /\ Len(V) = Len(S)
    /\ IdsOf(V) = IdsOf(S)

C4_Witness ==
  /\ Computed
  /\ AnyPending(createSubmissions)
  /\ \E i \in DOMAIN P : P[i].pending /\ ~HasId(S, P[i].input[2])
  /\ \E k \in DOMAIN S : PendingFor(S[k].id) # {}
  /\ IdsOf(V) = IdsOf(S)

\* C5: the memo leaves every object of the snapshot as it was, an overlaid
\* todo is an object that did not exist before, and a second run on the same
\* snapshot and submissions returns the same list
C5_Pure ==
  memo.calls > 0 =>
    /\ SubSeq(heap, 1, Len(heap0)) = heap0
    /\ memo.ready = snap.ready
    /\ \A k \in DOMAIN memo.list :
         \/ memo.list[k] = snap.list[k] /\ PendingFor(S[k].id) = {}
         \/ memo.list[k] > Len(heap0) /\ PendingFor(S[k].id) # {}
    /\ V = memo.first

C5_Witness ==
  /\ memo.calls = 2
  /\ snap.ready
  /\ \E k \in DOMAIN S : V[k].completed # S[k].completed
  /\ \E k \in DOMAIN S : memo.list[k] = snap.list[k]

\* C6: when several entries are pending for the id of a todo, the todo is shown
\* with the completed argument of the first of them in the list's order
C6_FirstPendingWins ==
  Computed =>
    \A k \in DOMAIN S :
      Cardinality(PendingFor(S[k].id)) > 1 =>
        \A i \in PendingFor(S[k].id) :
          (\A j \in PendingFor(S[k].id) : i <= j) => V[k].completed = P[i].input[1]

C6_Witness ==
  /\ Computed
  /\ \E k \in DOMAIN S : \E i, j \in PendingFor(S[k].id) :
       /\ i < j
       /\ P[i].input[1] # P[j].input[1]
       /\ \A m \in PendingFor(S[k].id) : i <= m
       /\ V[k].completed = P[i].input[1]

----------------------------------------------------------------------------
(* Claims on the server functions, under Spec *)

\* a step in which server function fn ran up to its store write
Ran(fn) == last'.n # last.n /\ last'.fn = fn

\* C7: createToDo with the text missing (null) or empty throws "Missing Text"
\* and leaves the store as it was
C7_ValidationFails ==
  [][(Ran("createToDo") /\ last'.text \in {FormNull, FormString("")}) =>
       (last'.error = MissingText /\ store' = store)]_vars

C7_Witness ==
  /\ last.fn = "createToDo"
  /\ last.text = FormString("")
  /\ last.ok
  /\ last.error = MissingText
  /\ \E i \in DOMAIN createSubmissions :
       /\ createSubmissions[i].input = FormString("")
       /\ createSubmissions[i].error = MissingText
       /\ ~createSubmissions[i].pending

\* C8: a createToDo that succeeds had a non-empty text and adds one row to the
\* store, with that text, completed = FALSE and an id no row had; the rows
\* that were there are as they were
C8_CreateAddsOne ==
  [][(Ran("createToDo") /\ last'.error = NoError) =>
       /\ last'.text.type = "string" /\ last'.text.str # ""
       /\ Len(store') = Len(store) + 1
       /\ SubSeq(store', 1, Len(store)) = store
       /\ store'[Len(store')].text = last'.text.str
       /\ store'[Len(store')].completed = FALSE
       /\ ~HasId(store, store'[Len(store')].id)]_vars

C8_Witness ==
  /\ last.fn = "createToDo"
  /\ last.error = NoError
  /\ Len(store) = 3
  /\ store[3].text = last.text.str
  /\ \E k \in 1..2 : store[k].completed

\* C9: an update that succeeds names the id of a row, sets the completed field
\* of that row to its argument and changes nothing else: no other field, no
\* other row, not the number of rows
C9_UpdateOnlyCompleted ==
  [][(Ran("update") /\ last'.error = NoError) =>
       /\ HasId(store, last'.id)
       /\ Len(store') = Len(store)
       /\ \A k \in DOMAIN store :
            /\ store'[k].id = store[k].id
            /\ store'[k].text = store[k].text
            /\ store[k].id = last'.id => store'[k].completed = last'.chcked
            /\ store[k].id # last'.id => store'[k].completed = store[k].completed]_vars

C9_Witness ==
  /\ last.fn = "update"
  /\ last.error = NoError
  /\ last.chcked
  /\ \E j, k \in DOMAIN store :
       /\ store[j].id = last.id /\ store[j].completed
       /\ store[k].id # last.id /\ ~store[k].completed

\* C10: an update that names an id no row has throws NotFoundError (the store
\* working) and leaves the store as it was
C10_UnknownIdFails ==
  [][(Ran("update") /\ ~HasId(store, last'.id)) =>
       /\ store' = store
       /\ last'.error # NoError
       /\ last'.ok => last'.error = NotFoundError]_vars

C10_Witness ==
  /\ last.fn = "update"
  /\ last.ok
  /\ last.error = NotFoundError
  /\ Len(store) > 0
  /\ ~HasId(store, last.id)

\* C11: an update that runs right after an update with the same arguments
\* that succeeded (no other write between them) leaves the store, and at its
\* write the cache and the snapshot, as the first one left them
C11_Idempotent ==
  [][(Ran("update") /\ last.fn = "update" /\ last.error = NoError
        /\ last'.chcked = last.chcked /\ last'.id = last.id /\ last'.ok) =>
       /\ last'.error = NoError
       /\ store' = store
       /\ cache' = cache
       /\ todos' = todos]_vars

C11_Witness ==
  /\ last.fn = "update"
  /\ last.n = 2
  /\ last.error = NoError
  /\ last.chcked
  /\ \E i \in DOMAIN updateSubmissions :
       /\ updateSubmissions[i].input = <<last.chcked, last.id>>
       /\ updateSubmissions[i].done # <<>>
       /\ ~updateSubmissions[i].latest
  /\ \E k \in DOMAIN store : store[k].id = last.id /\ store[k].completed

\* the steps of its server function that an invocation has completed
Steps == <<"write", "delay", "revalidate">>
InOrder(subs) ==
  \A i \in DOMAIN subs : subs[i].done = SubSeq(Steps, 1, Len(subs[i].done))
Invalidates(subs, subs2) ==
  \E i \in DOMAIN subs :
    /\ Len(subs2) = Len(subs)
    /\ subs[i].done = SubSeq(Steps, 1, 2)
    /\ subs2[i].done = Steps

\* C12: the cache entry of the list goes from valid to invalid only in a step
\* of an invocation that has committed its own write and waited its delay,
\* and an invocation never has steps done other than in the order write,
\* delay, invalidation
C12_InvalidateAfterWrite ==
  [][/\ (cache.valid /\ ~cache'.valid) =>
          \/ Invalidates(createSubmissions, createSubmissions')
          \/ Invalidates(updateSubmissions, updateSubmissions')
     /\ InOrder(createSubmissions)
     /\ InOrder(updateSubmissions)]_vars

C12_Witness ==
  /\ ~cache.valid
  /\ \E i \in DOMAIN updateSubmissions :
       /\ updateSubmissions[i].done = Steps
       /\ updateSubmissions[i].latest
       /\ \E k \in DOMAIN store :
            /\ store[k].id = updateSubmissions[i].input[2]
            /\ store[k].completed = updateSubmissions[i].input[1]
            /\ todos.list[k].completed # store[k].completed

\* the invocation has run its server function to the end without an error
Resolved(e) == e.done = Steps

\* the list the next getTodos() returns
Fetched == getTodos(cache, store).result

\* the row the last create of this client made
Created(k) ==
  /\ k \in DOMAIN writes
  /\ writes[k].made = "ui"
  /\ \A j \in DOMAIN writes : writes[j].made = "ui" => j <= k

\* C13: once update(chcked, id) has resolved without error, and no later write
\* to that row has committed, the next getTodos() has the row id with
\* completed = chcked; once createToDo has resolved without error the next
\* getTodos() has the row it created
C13_ReadAfterWrite ==
  /\ \A i \in DOMAIN updateSubmissions :
       LET e == updateSubmissions[i] IN
         (Resolved(e) /\ e.latest) =>
           \E k \in DOMAIN Fetched :
             /\ Fetched[k].id = e.input[2]
             /\ Fetched[k].completed = e.input[1]
  /\ \A i \in DOMAIN createSubmissions :
       Resolved(createSubmissions[i]) =>
         \E k \in DOMAIN Fetched :
           /\ Created(k)
           /\ Fetched[k].id = store[k].id
           /\ FormString(Fetched[k].text) = createSubmissions[i].input

C13_Witness ==
  /\ cache.valid
  /\ \E i \in DOMAIN updateSubmissions :
       /\ Resolved(updateSubmissions[i])
       /\ updateSubmissions[i].latest
       /\ updateSubmissions[i].input[1]
       /\ \E k \in DOMAIN cache.value :
            /\ cache.value[k].id = updateSubmissions[i].input[2]
            /\ cache.value[k].completed
  /\ \E k \in DOMAIN cache.value : ~cache.value[k].completed

\* the invocation of an entry is in flight: submitted and not settled
InFlight(e) == e.pc \in {"write", "delay", "revalidate", "refetch"}

Tracked(subs) ==
  \A i \in DOMAIN subs :
    /\ subs[i].pending <=> InFlight(subs[i])
    /\ subs[i].pending <=> subs[i].error = NoError
    /\ subs[i].pc = "write" => subs[i] = Submission(subs[i].input)
    /\ subs[i].pc \in {"write", "delay", "revalidate", "refetch", "done"}

\* C14: an entry of useSubmissions is pending exactly while its invocation is
\* in flight; before the store write it is there as submitted, pending and
\* with its input; a settled invocation has no entry or one that is not
\* pending and has the error; the write of an invocation is the one of its
\* entry's input
C14_PendingWhileInFlight ==
  /\ Tracked(createSubmissions)
  /\ Tracked(updateSubmissions)
  /\ \A i \in DOMAIN updateSubmissions :
       LET e == updateSubmissions[i] IN
         (e.latest /\ e.done # <<>>) =>
           \E k \in DOMAIN store :
             /\ store[k].id = e.input[2]
             /\ store[k].completed = e.input[1]
             /\ writes[k].by = "ui"

C14_Witness ==
  \E i, j \in DOMAIN updateSubmissions :
    /\ ~updateSubmissions[i].pending
    /\ updateSubmissions[i].error = StoreError
    /\ updateSubmissions[j].pending
    /\ updateSubmissions[j].pc = "write"
    /\ updateSubmissions[j].input = updateSubmissions[i].input
    /\ \E k \in DOMAIN createSubmissions : createSubmissions[k].pc = "refetch"

\* the pending entries of useSubmissions(update) for an id
PendingUpdates(id) ==
  {i \in DOMAIN updateSubmissions :
     updateSubmissions[i].pending /\ updateSubmissions[i].input[2] = id}

\* C15: for the id of an entry that settled with an error, the list rendered
\* has the completed of the snapshot, or the argument of an entry still
\* pending for that id when there is one
C15_FailedNotPredicted ==
  todos.ready =>
    \A i \in DOMAIN updateSubmissions :
      updateSubmissions[i].error # NoError =>
        \A k \in DOMAIN View.list :
          View.list[k].id = updateSubmissions[i].input[2] =>
            IF PendingUpdates(View.list[k].id) = {}
            THEN View.list[k].completed = todos.list[k].completed
            ELSE \E j \in PendingUpdates(View.list[k].id) :
                   View.list[k].completed = updateSubmissions[j].input[1]

C15_Witness ==
  /\ todos.ready
  /\ \E i, j \in DOMAIN updateSubmissions : \E k \in DOMAIN View.list :
       /\ updateSubmissions[i].error = StoreError
       /\ View.list[k].id = updateSubmissions[i].input[2]
       /\ PendingUpdates(View.list[k].id) = {}
       /\ todos.list[k].completed # updateSubmissions[i].input[1]
       /\ View.list[k].completed = todos.list[k].completed
       /\ updateSubmissions[j].pending

\* the list rendered has the row of this id with this completed
Shows(list, id, c) ==
  \E k \in DOMAIN list : list[k].id = id /\ list[k].completed = c

\* an invocation of update for this id has written and has not settled
Unsettled(id) ==
  \E i \in DOMAIN updateSubmissions :
    /\ updateSubmissions[i].input[2] = id
    /\ updateSubmissions[i].done # <<>>

\* C16: while entries for two different ids are pending, whatever steps each
\* invocation has done, the list rendered has both arguments; and once the
\* invocations that wrote two rows have settled with no error, the snapshot
\* has the values written (no other client having written the rows since)
C16_BothPredicted ==
  /\ \A i, j \in DOMAIN updateSubmissions :
       LET a == updateSubmissions[i]
           b == updateSubmissions[j]
       IN (a.pending /\ b.pending /\ a.input[2] # b.input[2]) =>
            /\ todos.ready
            /\ Shows(View.list, a.input[2], a.input[1])
            /\ Shows(View.list, b.input[2], b.input[1])
  /\ \A k, l \in DOMAIN store :
       (/\ k # l
        /\ writes[k].by = "ui" /\ ~Unsettled(store[k].id)
        /\ writes[l].by = "ui" /\ ~Unsettled(store[l].id)) =>
         /\ Shows(todos.list, store[k].id, writes[k].chcked)
         /\ Shows(todos.list, store[l].id, writes[l].chcked)

C16_Witness ==
  \E i, j \in DOMAIN updateSubmissions :
    /\ i < j
    /\ updateSubmissions[i].pc = "write"
    /\ updateSubmissions[j].pc = "refetch"
    /\ updateSubmissions[i].input[2] # updateSubmissions[j].input[2]
    /\ updateSubmissions[i].input[1]
    /\ updateSubmissions[j].input[1]
    /\ cache.valid
    /\ Shows(todos.list, updateSubmissions[i].input[2], FALSE)
    /\ Shows(todos.list, updateSubmissions[j].input[2], TRUE)
    /\ Shows(View.list, updateSubmissions[i].input[2], TRUE)
    /\ Shows(View.list, updateSubmissions[j].input[2], TRUE)

\* both invocations have settled and the snapshot has both values
C16_Settled ==
  /\ updateSubmissions = <<>>
  /\ \E k, l \in DOMAIN store :
       /\ k # l
       /\ writes[k].by = "ui" /\ writes[k].chcked
       /\ writes[l].by = "ui" /\ writes[l].chcked
       /\ Shows(todos.list, store[k].id, TRUE)
       /\ Shows(todos.list, store[l].id, TRUE)

\* C17: an entry pending for an id, and a pending entry of createToDo, is
\* followed by a state where none is pending: the invocation has settled, by
\* success (entry removed) or by failure (entry not pending)
C17_EventuallySettles ==
  /\ \A id \in Ids : (PendingUpdates(id) # {}) ~> (PendingUpdates(id) = {})
  /\ AnyPending(createSubmissions) ~> ~AnyPending(createSubmissions)

C17_Witness ==
  /\ calls = MaxCalls
  /\ ~AnyPending(updateSubmissions)
  /\ ~AnyPending(createSubmissions)
  /\ \E i \in DOMAIN updateSubmissions : updateSubmissions[i].error = StoreError
  /\ \E k \in DOMAIN store : writes[k].by = "ui"
  /\ \E k \in DOMAIN store : writes[k].made = "ui"

\* what useSubmissions shows of an entry
Seen(e) == [input |-> e.input, pending |-> e.pending, error |-> e.error]

\* one step of a tracker: an entry is appended, or one entry is removed, or
\* at most one entry changes and keeps its input
TrackerStep(s, t) ==
  \/ t = s
  \/ /\ Len(t) = Len(s) + 1
     /\ \A j \in DOMAIN s : Seen(t[j]) = Seen(s[j])
     /\ t[Len(t)].pending
  \/ /\ Len(t) = Len(s) - 1
     /\ \E i \in DOMAIN s :
          \A j \in DOMAIN t : Seen(t[j]) = Seen(IF j < i THEN s[j] ELSE s[j + 1])
  \/ /\ Len(t) = Len(s)
     /\ \E i \in DOMAIN s \cup {0} :
          /\ \A j \in DOMAIN s : j # i => Seen(t[j]) = Seen(s[j])
          /\ i # 0 => t[i].input = s[i].input /\ s[i].pending /\ ~t[i].pending

\* C18: entries are per invocation: a submission appends an entry whatever
\* entries there are, for the same id too, and the settling of an invocation
\* removes its entry or ends its pending, every other entry keeping its
\* input, pending flag and place in the order
C18_KeyedByInvocation ==
  [][/\ TrackerStep(updateSubmissions, updateSubmissions')
     /\ TrackerStep(createSubmissions, createSubmissions')]_vars

C18_Witness ==
  /\ Len(updateSubmissions) = 2
  /\ updateSubmissions[1].input[2] = updateSubmissions[2].input[2]
  /\ updateSubmissions[1].pending
  /\ updateSubmissions[1].pc = "write"
  /\ updateSubmissions[2].pending
  /\ updateSubmissions[2].pc = "delay"
  /\ calls = MaxCalls
  /\ last.fn = "update"
  /\ last.id = updateSubmissions[1].input[2]

\* the entries of useSubmissions(update) for an id, pending or not
UpdatesFor(id) ==
  {i \in DOMAIN updateSubmissions : updateSubmissions[i].input[2] = id}

\* C19: with update submitted by the checkboxes only, no two pending entries
\* have the same id, the pending entry for an id is the last one submitted for
\* it, and the list rendered has its argument
C19_OnePendingPerId ==
  \A i \in DOMAIN updateSubmissions :
    LET e == updateSubmissions[i] IN
      e.pending =>
        /\ PendingUpdates(e.input[2]) = {i}
        /\ \A j \in UpdatesFor(e.input[2]) : j <= i
        /\ Shows(View.list, e.input[2], e.input[1])

C19_Witness ==
  /\ Len(updateSubmissions) = 2
  /\ updateSubmissions[1].input[2] = updateSubmissions[2].input[2]
  /\ updateSubmissions[1].error = StoreError
  /\ updateSubmissions[2].pending
  /\ Shows(View.list, updateSubmissions[2].input[2], updateSubmissions[2].input[1])
  /\ Shows(todos.list, updateSubmissions[2].input[2], ~updateSubmissions[2].input[1])
  /\ \E k \in DOMAIN View.list :
       /\ View.list[k].id # updateSubmissions[2].input[2]
       /\ exists(updateSubmissions, View.list[k]) = 0

\* C20: the completed of a row is the argument of the update that committed
\* last on it, whichever client made it and whatever was written before; a
\* row no update has committed on has the completed it was created with
C20_LastWriteWins ==
  \A k \in DOMAIN store :
    /\ writes[k].by # "none" => store[k].completed = writes[k].chcked
    /\ writes[k].by = "none" => ~store[k].completed

C20_Witness ==
  \E i \in DOMAIN updateSubmissions : \E k \in DOMAIN store :
    /\ updateSubmissions[i].pc = "refetch"
    /\ ~updateSubmissions[i].latest
    /\ store[k].id = updateSubmissions[i].input[2]
    /\ writes[k].by = "other"
    /\ writes[k].chcked # updateSubmissions[i].input[1]
    /\ store[k].completed = writes[k].chcked
    /\ last.fn = "update"
    /\ last.id = store[k].id
    /\ last.chcked = ~updateSubmissions[i].input[1]

\* C21: while the entry of the key is valid getTodos() returns the value
\* cached and leaves the entry as it is, the store having changed or not;
\* once invalidated it returns what the store holds now and caches that; the
\* snapshot of the page is the cached value while the entry is valid
C21_Cached ==
  /\ cache.valid =>
       /\ Fetched = cache.value
       /\ getTodos(cache, store).cache = cache
  /\ ~cache.valid =>
       /\ Fetched = DbFindMany(store)
       /\ getTodos(cache, store).cache = [valid |-> TRUE, value |-> DbFindMany(store)]
  /\ (todos.ready /\ cache.valid) => todos.list = cache.value

C21_Witness ==
  /\ cache.valid
  /\ todos.ready
  /\ cache.value # DbFindMany(store)
  /\ Len(cache.value) = Len(store)
  /\ Fetched = todos.list
  /\ last.fn = "update"
  /\ last.error = NoError

\* the row of this id, in a store that has it
RowOf(db, id) == db[CHOOSE k \in DOMAIN db : db[k].id = id]

\* C22: no step removes a row: every id of the store is an id of the store
\* after the step, with the same text; and the ids of the store are pairwise
\* distinct
C22_RowsKept ==
  [][/\ IdSet(store) \subseteq IdSet(store')
     /\ \A id \in IdSet(store) : RowOf(store', id).text = RowOf(store, id).text
     /\ Len(store') >= Len(store)
     /\ DistinctIds(store)
     /\ DistinctIds(store')]_vars

C22_Witness ==
  /\ Len(store) = 3
  /\ DistinctIds(store)
  /\ writes[3].made = "ui"
  /\ writes[3].by = "other"
  /\ store[3].completed
  /\ store[3].text = "b"
  /\ last.fn = "update"
  /\ last.error = StoreError

\* C23: the memo returns a list exactly when todos() is one: on an undefined
\* snapshot it returns undefined, entries pending or not, and allocates
\* nothing
C23_NoListBeforeFirstRead ==
  memo.calls > 0 =>
    /\ memo.ready = snap.ready
    /\ ~snap.ready => (memo.list = <<>> /\ heap = heap0)

C23_Witness ==
  /\ memo.calls > 0
  /\ ~snap.ready
  /\ ~memo.ready
  /\ Len(P) = MaxPending
  /\ \A i \in DOMAIN P : P[i].pending

\* C24: with no other writer, the list rendered has for an id the argument of
\* the entry pending for it, and, when none is pending, the argument of the
\* last update committed on it: the value shown at submission is the value
\* shown in every state up to the next submission for the id, the state after
\* the entry is dropped included
C24_NoFlicker ==
  /\ \A i \in DOMAIN updateSubmissions :
       updateSubmissions[i].pending =>
         Shows(View.list, updateSubmissions[i].input[2], updateSubmissions[i].input[1])
  /\ \A k \in DOMAIN store :
       (writes[k].by = "ui" /\ PendingUpdates(store[k].id) = {}) =>
         Shows(View.list, store[k].id, writes[k].chcked)

C24_Witness ==
  /\ Len(updateSubmissions) = 1
  /\ updateSubmissions[1].pending
  /\ updateSubmissions[1].pc = "delay"
  /\ \E k \in DOMAIN store :
       /\ writes[k].by = "ui"
       /\ writes[k].chcked
       /\ store[k].id # updateSubmissions[1].input[2]
       /\ PendingUpdates(store[k].id) = {}
       /\ Shows(View.list, store[k].id, TRUE)
       /\ Shows(todos.list, store[k].id, TRUE)
  /\ calls = 2

\* <button disabled={createSubmissions.pending}>
CreateDisabled == AnyPending(createSubmissions)

\* an invocation of createToDo is in flight
CreateInFlight == \E i \in DOMAIN createSubmissions : InFlight(createSubmissions[i])

C26_ClickOnRenderedTodo ==
  [][/\ Len(updateSubmissions') = Len(updateSubmissions) + 1 =>
          \E k \in DOMAIN View.list :
            updateSubmissions'[Len(updateSubmissions')].input =
              <<~View.list[k].completed, View.list[k].id>>
     /\ \A i \in DOMAIN updateSubmissions' :
          /\ HasId(store', updateSubmissions'[i].input[2])
          /\ updateSubmissions'[i].error # NotFoundError]_vars

C26_Witness ==
  \E i \in DOMAIN updateSubmissions :
    /\ updateSubmissions[i].pc = "delay"
    /\ ~updateSubmissions[i].input[1]
    /\ updateSubmissions[i].input[2] = 3
    /\ Shows(todos.list, 3, TRUE)
    /\ Shows(View.list, 3, FALSE)
    /\ Shows(store, 3, FALSE)

\* the store has a row with this id and this text
InStore(todo) ==
  \E j \in DOMAIN store : store[j].id = todo.id /\ store[j].text = todo.text

\* C27: every todo rendered has the id and the text of a row of the store;
\* the list rendered has the ids of the snapshot, so the row of a createToDo
\* in flight is rendered only once getTodos() has returned it
C27_NoPhantom ==
  /\ \A k \in DOMAIN View.list : InStore(View.list[k])
  /\ IdsOf(View.list) = IdsOf(todos.list)
  /\ \A k \in DOMAIN todos.list : InStore(todos.list[k])

C27_Witness ==
  /\ Len(createSubmissions) = 1
  /\ createSubmissions[1].pc = "refetch"
  /\ ~cache.valid
  /\ Len(store) = 3
  /\ Created(3)
  /\ Len(View.list) = 2
  /\ AnyPending(updateSubmissions)

\* no invocation of createToDo or update is pending
Quiescent == ~AnyPending(createSubmissions) /\ ~AnyPending(updateSubmissions)

\* C28: with no other writer, once the list has been read, in every state
\* where nothing is pending the list rendered is the snapshot and the
\* snapshot is what the store holds
C28_QuiescentConsistency ==
  (todos.ready /\ Quiescent) =>
    /\ View.ready
    /\ View.list = todos.list
    /\ todos.list = DbFindMany(store)

C28_Witness ==
  /\ todos.ready
  /\ Quiescent
  /\ calls = MaxCalls
  /\ Len(store) = 3
  /\ Created(3)
  /\ \E i \in DOMAIN updateSubmissions : updateSubmissions[i].error = StoreError
  /\ \E k \in DOMAIN store : writes[k].by = "ui" /\ store[k].completed
  /\ View.list = DbFindMany(store)

\* the entries that failed have done no step and have none left to do
FailedAtOnce(subs) ==
  \A i \in DOMAIN subs :
    subs[i].error # NoError => (subs[i].done = <<>> /\ subs[i].pc = "done")

\* C29: the step in which createToDo or update fails, at the validation or
\* at the store, changes neither the store nor the cache nor the snapshot,
\* and the invocation that failed does nothing after it: no delay, no
\* invalidation
C29_FailureSkipsInvalidation ==
  [][/\ (last'.n # last.n /\ last'.error # NoError) =>
          /\ store' = store
          /\ cache' = cache
          /\ todos' = todos
     /\ FailedAtOnce(createSubmissions')
     /\ FailedAtOnce(updateSubmissions')]_vars

C29_Witness ==
  /\ cache.valid
  /\ todos.ready
  /\ last.n = 2
  /\ last.fn = "update"
  /\ last.error = StoreError
  /\ Len(createSubmissions) = 1
  /\ createSubmissions[1].error = MissingText
  /\ Len(updateSubmissions) = 1
  /\ updateSubmissions[1].error = StoreError
  /\ todos.list = cache.value

====
